---- MODULE Spec2Model ----
(***************************************************************************)
(* Model of the web-analytics dashboard store (kea logic                   *)
(* scenes.webAnalytics.webAnalyticsSceneLogic): its reducers, its actions  *)
(* and its tiles selector, and of what the WebAnalyticsDashboard component *)
(* renders for each tile.                                                  *)
(*                                                                         *)
(* A property filter is a record, as in the source:                        *)
(*   event filter   [type |-> "event", key, value, operator]               *)
(*   HogQL filter   [type |-> "hogql", key]            (no value field)    *)
(*                  [type |-> "hogql", key, value]                         *)
(* A filter value (string | array | null in the source) is tagged with its *)
(* JavaScript shape so that Array.isArray and isNotNil can be computed:    *)
(*   [kind |-> "string", val |-> "a"], [kind |-> "array", val |-> <<..>>], *)
(*   [kind |-> "null"].                                                    *)
(***************************************************************************)
EXTENDS Integers, Sequences, FiniteSets, TLC

VARIABLES webAnalyticsFilters, sourceTab, deviceTab, pathTab, lastAction

vars == <<webAnalyticsFilters, sourceTab, deviceTab, pathTab, lastAction>>

(***************************************************************************)
(* Bounds of the model.                                                    *)
(***************************************************************************)
\* longest filter list the store is driven to
MaxFilters == 2
\* longest filter list handed to setWebAnalyticsFilters
MaxSetFilters == 1

(***************************************************************************)
(* Inputs the actions are driven with.                                     *)
(***************************************************************************)
\* property names passed to togglePropertyFilter: one event property and
\* two set-once properties
Keys == {"$pathname", "$initial_pathname", "$initial_referrer"}

\* breakdown values passed to togglePropertyFilter
Values == {"/home", "/about"}

\* a tab identifier that belongs to no tab group
InvalidTab == "NOT_A_TAB"

(***************************************************************************)
(* Enumerations of the source.                                             *)
(***************************************************************************)
Event == "event"

HogQL == "hogql"

Exact == "exact"

IsNot == "is_not"

SourceTab == <<"REFERRING_DOMAIN", "UTM_SOURCE", "UTM_CAMPAIGN">>

DeviceTab == <<"BROWSER", "OS", "DEVICE_TYPE">>

PathTab == <<"PATH", "INITIAL_PATH">>

initialWebAnalyticsFilter == <<>>

setOncePropertyNames ==
    {"$initial_pathname", "$initial_referrer", "$initial_utm_source", "$initial_utm_campaign"}

(***************************************************************************)
(* Filter values.                                                          *)
(***************************************************************************)
StringValue(s) == [kind |-> "string", val |-> s]

ArrayValue(a) == [kind |-> "array", val |-> a]

NullValue == [kind |-> "null"]

\* String.prototype.startsWith
startsWith(s, prefix) ==
    /\ Len(s) >= Len(prefix)
    /\ SubSeq(s, 1, Len(prefix)) = prefix

\* variant of includes that looks at the first element only
includes_firstOnly(a, x) == Len(a) > 0 /\ a[1] = x

\* Array.prototype.includes on an array of strings
includes(a, x) == \E i \in 1..Len(a) : a[i] = x

\* `properties.$set_once.${key} = '${value}'`
hogqlForSetOnceProperty(key, value) ==
    "properties.$set_once." \o key \o " = '" \o value \o "'"

isHogqlForSetOnceProperty(key, p) ==
    /\ key \in setOncePropertyNames
    /\ startsWith(p.key, "properties.$set_once." \o key \o " = ")

\* (Array.isArray(f.value) ? f.value : [f.value]).filter(isNotNil)
\* array items are strings, so only a null scalar is dropped
oldValueOf(f) ==
    IF f.value.kind = "array" THEN f.value.val
    ELSE IF f.value.kind = "null" THEN <<>>
    ELSE <<f.value.val>>

\* variant of someMatch without the HogQL disjunct
someMatch_eventOnly(f, key) ==
    f.type = Event /\ f.key = key /\ f.operator = Exact

\* the predicate of oldPropertyFilters.some(...)
someMatch(f, key) ==
    \/ (f.type = Event /\ f.key = key /\ f.operator = Exact)
    \/ (f.type = HogQL /\ isHogqlForSetOnceProperty(key, f))

\* the callback of oldPropertyFilters.map(...): the mapped filter as a
\* one-element sequence, or <<>> where the callback returns null
toggleOne(f, key, value) ==
    IF key \in setOncePropertyNames
    THEN IF f.type # HogQL THEN <<f>>
         ELSE IF ~isHogqlForSetOnceProperty(key, f) THEN <<f>>
         ELSE IF f.key = hogqlForSetOnceProperty(key, value) THEN <<>>
         ELSE <<[type |-> HogQL, key |-> key,
                 value |-> StringValue(hogqlForSetOnceProperty(key, value))]>>
    ELSE IF f.key # key \/ f.type # Event \/ f.operator # Exact THEN <<f>>
         ELSE IF includes(oldValueOf(f), value)
              THEN IF Len(oldValueOf(f)) > 1
                   THEN <<[type |-> Event, key |-> key, operator |-> Exact,
                           value |-> ArrayValue(<<value>>)]>>
                   ELSE <<>>
              ELSE <<[type |-> Event, key |-> key, operator |-> Exact,
                      value |-> ArrayValue(Append(oldValueOf(f), value))]>>

\* oldPropertyFilters.map(...).filter(isNotNil)
RECURSIVE mapNotNil(_, _, _)
mapNotNil(fs, key, value) ==
    IF Len(fs) = 0 THEN <<>>
    ELSE toggleOne(Head(fs), key, value) \o mapNotNil(Tail(fs), key, value)

\* variant of newFilter that wraps the value of an event filter in an array
newFilter_arrayValue(key, value) ==
    IF key \in setOncePropertyNames
    THEN [type |-> HogQL, key |-> hogqlForSetOnceProperty(key, value)]
    ELSE [type |-> Event, key |-> key, value |-> ArrayValue(<<value>>), operator |-> Exact]

\* variant of newFilter without the set-once branch
newFilter_eventOnly(key, value) ==
    [type |-> Event, key |-> key, value |-> StringValue(value), operator |-> Exact]

\* the filter built when nothing matches
newFilter(key, value) ==
    IF key \in setOncePropertyNames
    THEN [type |-> HogQL, key |-> hogqlForSetOnceProperty(key, value)]
    ELSE [type |-> Event, key |-> key, value |-> StringValue(value), operator |-> Exact]

\* variant of togglePropertyFilter that puts a new filter at the front
togglePropertyFilter_prepend(oldPropertyFilters, key, value) ==
    IF \E i \in 1..Len(oldPropertyFilters) : someMatch(oldPropertyFilters[i], key)
    THEN mapNotNil(oldPropertyFilters, key, value)
    ELSE <<newFilter(key, value)>> \o oldPropertyFilters

\* reducer webAnalyticsFilters.togglePropertyFilter
togglePropertyFilter(oldPropertyFilters, key, value) ==
    IF \E i \in 1..Len(oldPropertyFilters) : someMatch(oldPropertyFilters[i], key)
    THEN mapNotNil(oldPropertyFilters, key, value)
    ELSE Append(oldPropertyFilters, newFilter(key, value))

(***************************************************************************)
(* Selector tiles.                                                         *)
(***************************************************************************)
\* a tab of a tabbed tile: a data table over a WebStatsTableQuery
statsTableTab(id, title, linkText, breakdownBy, filters) ==
    [id |-> id, title |-> title, linkText |-> linkText,
     query |-> [full |-> TRUE, kind |-> "DataTableNode",
                source |-> [kind |-> "WebStatsTableQuery",
                            properties |-> filters,
                            breakdownBy |-> breakdownBy]]]

overviewTile(filters) ==
    [layout |-> [colSpan |-> 12],
     query |-> [full |-> TRUE, kind |-> "DataTableNode",
                source |-> [kind |-> "WebOverviewStatsQuery",
                            properties |-> filters]]]

\* variant of pathsTile whose setTabId is the setter of the sources tile
pathsTile_sourceSetter(filters, activeTabId) ==
    [layout |-> [colSpan |-> 6],
     activeTabId |-> activeTabId,
     setTabId |-> "setSourceTab",
     tabs |-> <<statsTableTab(PathTab[1], "Top Paths", "Path", "Page", filters),
                statsTableTab(PathTab[2], "Top Entry Paths", "Entry Path", "InitialPage",
                              filters)>>]

pathsTile(filters, activeTabId) ==
    [layout |-> [colSpan |-> 6],
     activeTabId |-> activeTabId,
     setTabId |-> "setPathTab",
     tabs |-> <<statsTableTab(PathTab[1], "Top Paths", "Path", "Page", filters),
                statsTableTab(PathTab[2], "Top Entry Paths", "Entry Path", "InitialPage",
                              filters)>>]

sourcesTile(filters, activeTabId) ==
    [layout |-> [colSpan |-> 6],
     activeTabId |-> activeTabId,
     setTabId |-> "setSourceTab",
     tabs |-> <<statsTableTab(SourceTab[1], "Top Referrers", "Referrer",
                              "InitialReferringDomain", filters),
                statsTableTab(SourceTab[2], "Top Sources", "UTM Source",
                              "InitialUTMSource", filters),
                statsTableTab(SourceTab[3], "Top Campaigns", "UTM Campaign",
                              "InitialUTMCampaign", filters)>>]

devicesTile(filters, activeTabId) ==
    [layout |-> [colSpan |-> 6],
     activeTabId |-> activeTabId,
     setTabId |-> "setDeviceTab",
     tabs |-> <<statsTableTab(DeviceTab[1], "Top Browsers", "Browser", "Browser", filters),
                statsTableTab(DeviceTab[2], "Top OSs", "OS", "OS", filters),
                statsTableTab(DeviceTab[3], "Top Device Types", "Device Type",
                              "DeviceType", filters)>>]

uniqueUsersTile(filters) ==
    [title |-> "Unique users",
     layout |-> [colSpan |-> 6],
     query |-> [kind |-> "InsightVizNode",
                source |-> [kind |-> "TrendsQuery",
                            dateRange |-> [date_from |-> "-7d", date_to |-> "-1d"],
                            interval |-> "day",
                            series |-> <<[event |-> "$pageview", kind |-> "EventsNode",
                                          math |-> "dau", name |-> "$pageview"]>>,
                            trendsFilter |-> [compare |-> TRUE,
                                              display |-> "ActionsLineGraph"],
                            filterTestAccounts |-> TRUE,
                            properties |-> filters]]]

\* variant of worldMapTile that leaves the filter list out of the query
worldMapTile_unfiltered(filters) ==
    [title |-> "World Map (Unique Users)",
     layout |-> [colSpan |-> 6],
     query |-> [kind |-> "InsightVizNode",
                source |-> [kind |-> "TrendsQuery",
                            breakdown |-> [breakdown |-> "$geoip_country_code",
                                           breakdown_type |-> "person"],
                            dateRange |-> [date_from |-> "-7d"],
                            series |-> <<[event |-> "$pageview", kind |-> "EventsNode",
                                          math |-> "dau"]>>,
                            trendsFilter |-> [display |-> "WorldMap"],
                            filterTestAccounts |-> TRUE,
                            properties |-> initialWebAnalyticsFilter]]]

worldMapTile(filters) ==
    [title |-> "World Map (Unique Users)",
     layout |-> [colSpan |-> 6],
     query |-> [kind |-> "InsightVizNode",
                source |-> [kind |-> "TrendsQuery",
                            breakdown |-> [breakdown |-> "$geoip_country_code",
                                           breakdown_type |-> "person"],
                            dateRange |-> [date_from |-> "-7d"],
                            series |-> <<[event |-> "$pageview", kind |-> "EventsNode",
                                          math |-> "dau"]>>,
                            trendsFilter |-> [display |-> "WorldMap"],
                            filterTestAccounts |-> TRUE,
                            properties |-> filters]]]

\* variant of tiles with the sources tile ahead of the paths tile
tiles_sourcesFirst(filters, pathTabId, deviceTabId, sourceTabId) ==
    <<overviewTile(filters),
      sourcesTile(filters, sourceTabId),
      pathsTile(filters, pathTabId),
      devicesTile(filters, deviceTabId),
      uniqueUsersTile(filters),
      worldMapTile(filters)>>

\* selectors.tiles
tiles(filters, pathTabId, deviceTabId, sourceTabId) ==
    <<overviewTile(filters),
      pathsTile(filters, pathTabId),
      sourcesTile(filters, sourceTabId),
      devicesTile(filters, deviceTabId),
      uniqueUsersTile(filters),
      worldMapTile(filters)>>

(***************************************************************************)
(* Component WebAnalyticsDashboard: what each tile renders to.             *)
(***************************************************************************)
\* what a callback of tiles.map renders when it returns null
NullElement == [element |-> "null"]

\* variant of find that falls back on the first tab
find_orFirst(tabs, activeTabId) ==
    LET hits == {i \in 1..Len(tabs) : tabs[i].id = activeTabId} IN
    IF hits = {} THEN <<tabs[1]>>
    ELSE <<tabs[CHOOSE i \in hits : \A j \in hits : i <= j]>>

\* tabs.find((t) => t.id === activeTabId): the first tab with that id as a
\* one-element sequence, or <<>> for undefined
find(tabs, activeTabId) ==
    LET hits == {i \in 1..Len(tabs) : tabs[i].id = activeTabId} IN
    IF hits = {} THEN <<>>
    ELSE <<tabs[CHOOSE i \in hits : \A j \in hits : i <= j]>>

\* the callback of tiles.map: the element one tile renders to; title and
\* links are sequences, empty where the markup leaves them out
renderTile(tile) ==
    IF "query" \in DOMAIN tile
    THEN [element |-> "div",
          title |-> IF "title" \in DOMAIN tile THEN <<tile.title>> ELSE <<>>,
          links |-> <<>>,
          query |-> tile.query,
          readOnly |-> TRUE]
    ELSE IF "tabs" \in DOMAIN tile
    THEN IF find(tile.tabs, tile.activeTabId) = <<>>
         THEN NullElement
         ELSE [element |-> "div",
               title |-> <<find(tile.tabs, tile.activeTabId)[1].title>>,
               links |-> IF Len(tile.tabs) > 1
                         THEN [i \in 1..Len(tile.tabs) |->
                                 [linkText |-> tile.tabs[i].linkText,
                                  active |-> (tile.tabs[i].id = tile.activeTabId),
                                  onClick |-> [type |-> tile.setTabId,
                                               tab |-> tile.tabs[i].id]]]
                         ELSE <<>>,
               query |-> find(tile.tabs, tile.activeTabId)[1].query,
               readOnly |-> TRUE]
    ELSE NullElement

\* the children of the grid: one slot per tile, in order
WebAnalyticsDashboard(tileList) ==
    [i \in 1..Len(tileList) |-> renderTile(tileList[i])]

(***************************************************************************)
(* The store.                                                              *)
(***************************************************************************)
\* event filters the property-filter widget hands over: an Exact filter on
\* a set-once property, a filter with another operator on an event property,
\* and an Exact filter whose value is null
EventFilterInputs ==
    {[type |-> Event, key |-> "$initial_pathname", operator |-> Exact,
      value |-> StringValue("/home")],
     [type |-> Event, key |-> "$pathname", operator |-> IsNot,
      value |-> StringValue("/home")],
     [type |-> Event, key |-> "$pathname", operator |-> Exact, value |-> NullValue]}

RECURSIVE SeqsUpTo(_, _)
SeqsUpTo(S, n) ==
    IF n = 0 THEN {<<>>}
    ELSE SeqsUpTo(S, n - 1) \cup
         {Append(s, x) : s \in {t \in SeqsUpTo(S, n - 1) : Len(t) = n - 1}, x \in S}

Init ==
    /\ webAnalyticsFilters = initialWebAnalyticsFilter
    /\ sourceTab = SourceTab[1]
    /\ deviceTab = DeviceTab[1]
    /\ pathTab = PathTab[1]
    /\ lastAction = [type |-> "init"]

SetWebAnalyticsFilters ==
    \E fs \in SeqsUpTo(EventFilterInputs, MaxSetFilters) :
        /\ webAnalyticsFilters' = fs
        /\ lastAction' = [type |-> "setWebAnalyticsFilters", webAnalyticsFilters |-> fs]
        /\ UNCHANGED <<sourceTab, deviceTab, pathTab>>

TogglePropertyFilter ==
    \E key \in Keys, value \in Values :
        /\ Len(togglePropertyFilter(webAnalyticsFilters, key, value)) <= MaxFilters
        /\ webAnalyticsFilters' = togglePropertyFilter(webAnalyticsFilters, key, value)
        /\ lastAction' = [type |-> "togglePropertyFilter", key |-> key, value |-> value]
        /\ UNCHANGED <<sourceTab, deviceTab, pathTab>>

SetSourceTab ==
    \E tab \in {SourceTab[i] : i \in 1..Len(SourceTab)} \cup {InvalidTab} :
        /\ sourceTab' = tab
        /\ lastAction' = [type |-> "setSourceTab", tab |-> tab]
        /\ UNCHANGED <<webAnalyticsFilters, deviceTab, pathTab>>

SetDeviceTab ==
    \E tab \in {DeviceTab[i] : i \in 1..Len(DeviceTab)} \cup {InvalidTab} :
        /\ deviceTab' = tab
        /\ lastAction' = [type |-> "setDeviceTab", tab |-> tab]
        /\ UNCHANGED <<webAnalyticsFilters, sourceTab, pathTab>>

\* variant of SetPathTab that also clears the filter list
SetPathTab_clearsFilters ==
    \E tab \in {PathTab[i] : i \in 1..Len(PathTab)} \cup {InvalidTab} :
        /\ pathTab' = tab
        /\ webAnalyticsFilters' = initialWebAnalyticsFilter
        /\ lastAction' = [type |-> "setPathTab", tab |-> tab]
        /\ UNCHANGED <<sourceTab, deviceTab>>

SetPathTab ==
    \E tab \in {PathTab[i] : i \in 1..Len(PathTab)} \cup {InvalidTab} :
        /\ pathTab' = tab
        /\ lastAction' = [type |-> "setPathTab", tab |-> tab]
        /\ UNCHANGED <<webAnalyticsFilters, sourceTab, deviceTab>>

Next ==
    \/ SetWebAnalyticsFilters
    \/ TogglePropertyFilter
    \/ SetSourceTab
    \/ SetDeviceTab
    \/ SetPathTab

Spec == Init /\ [][Next]_vars

\* the filter list alone: the two actions the webAnalyticsFilters reducer
\* answers, the tab selections staying at their defaults
FilterNext ==
    \/ SetWebAnalyticsFilters
    \/ TogglePropertyFilter

FilterSpec == Init /\ [][FilterNext]_vars

\* the store driven by togglePropertyFilter alone, from the empty list
ToggleNext == TogglePropertyFilter

ToggleSpec == Init /\ [][ToggleNext]_vars

(***************************************************************************)
(* Vocabulary of the properties.                                           *)
(***************************************************************************)
\* the step just taken dispatched togglePropertyFilter(k, v)
ToggleStep(k, v) ==
    /\ lastAction'.type = "togglePropertyFilter"
    /\ lastAction'.key = k
    /\ lastAction'.value = v

\* the last action dispatched was togglePropertyFilter(k, v)
Toggled(k, v) ==
    /\ lastAction.type = "togglePropertyFilter"
    /\ lastAction.key = k
    /\ lastAction.value = v

\* f is a HogQL filter whose expression, held in its key or in its value,
\* is the set-once expression for (k, v)
EncodesSetOnce(f, k, v) ==
    /\ f.type = HogQL
    /\ k \in setOncePropertyNames
    /\ \/ f.key = hogqlForSetOnceProperty(k, v)
       \/ /\ "value" \in DOMAIN f
          /\ f.value = StringValue(hogqlForSetOnceProperty(k, v))

\* f is an entry filtering property k
FiltersProperty(f, k) ==
    \/ f.key = k
    \/ \E v \in Values : EncodesSetOnce(f, k, v)

\* positions of the entries of fs that filter property k
EntriesFor(fs, k) == {i \in 1..Len(fs) : FiltersProperty(fs[i], k)}

(***************************************************************************)
(* C1 - key uniqueness: in every state reached from the empty list by      *)
(* togglePropertyFilter operations the list holds at most one entry per    *)
(* property, a HogQL entry counting for the set-once property it encodes.  *)
(***************************************************************************)
C1_KeyUniqueness ==
    \A k \in Keys : Cardinality(EntriesFor(webAnalyticsFilters, k)) <= 1

(***************************************************************************)
(* C2 - double toggle: when property k is not filtered, a                  *)
(* togglePropertyFilter(k, v) step leaves a list on which a second         *)
(* togglePropertyFilter(k, v) gives back the list before the step, for     *)
(* event properties and for set-once properties.                           *)
(***************************************************************************)
C2_DoubleToggleRestores ==
    [][\A k \in Keys, v \in Values :
         (ToggleStep(k, v) /\ EntriesFor(webAnalyticsFilters, k) = {})
            => togglePropertyFilter(webAnalyticsFilters', k, v) = webAnalyticsFilters]_vars

\* a set-once key was toggled on behind an event filter, and toggling it
\* again leaves the event filter alone
C2_Witness ==
    /\ lastAction.type = "togglePropertyFilter"
    /\ lastAction.key \in setOncePropertyNames
    /\ Len(webAnalyticsFilters) = 2
    /\ webAnalyticsFilters[1].type = Event
    /\ webAnalyticsFilters[2] = newFilter(lastAction.key, lastAction.value)
    /\ togglePropertyFilter(webAnalyticsFilters, lastAction.key, lastAction.value)
          = <<webAnalyticsFilters[1]>>

(***************************************************************************)
(* C3 - no match appends one filter.                                       *)
(***************************************************************************)
\* some entry of fs matches key k in the reducer's search
HasMatch(fs, k) == \E i \in 1..Len(fs) : someMatch(fs[i], k)

\* C3 as stated: with no match, togglePropertyFilter(k, v) appends exactly
\* one filter; for an event key it is {Event, k, Exact, value: [v]} with the
\* value an array of one element, for a set-once key a HogQL filter whose
\* expression encodes v.
C3_AppendsArrayOfOne ==
    [][\A k \in Keys, v \in Values :
         (ToggleStep(k, v) /\ ~HasMatch(webAnalyticsFilters, k))
            => webAnalyticsFilters' =
                 Append(webAnalyticsFilters,
                        IF k \in setOncePropertyNames
                        THEN [type |-> HogQL, key |-> hogqlForSetOnceProperty(k, v)]
                        ELSE [type |-> Event, key |-> k, operator |-> Exact,
                              value |-> ArrayValue(<<v>>)])]_vars

\* C3 amended: with no match, togglePropertyFilter(k, v) appends exactly one
\* filter; for an event key it is {Event, k, Exact, value: v} with the value
\* the bare string v, for a set-once key a HogQL filter whose key is the
\* expression properties.$set_once.k = 'v'.
C3_AppendsScalar ==
    [][\A k \in Keys, v \in Values :
         (ToggleStep(k, v) /\ ~HasMatch(webAnalyticsFilters, k))
            => webAnalyticsFilters' =
                 Append(webAnalyticsFilters,
                        IF k \in setOncePropertyNames
                        THEN [type |-> HogQL,
                              key |-> "properties.$set_once." \o k \o " = '" \o v \o "'"]
                        ELSE [type |-> Event, key |-> k, operator |-> Exact,
                              value |-> StringValue(v)])]_vars

\* togglePropertyFilter('$pathname', '/home') has acted on the empty list
C3_Witness ==
    /\ Toggled("$pathname", "/home")
    /\ webAnalyticsFilters =
         <<[type |-> Event, key |-> "$pathname", operator |-> Exact,
            value |-> StringValue("/home")]>>

(***************************************************************************)
(* C4 - toggle on a matching event filter.                                 *)
(***************************************************************************)
\* f is an Exact event filter for key k
IsExactEventFilter(f, k) == f.type = Event /\ f.key = k /\ f.operator = Exact

\* the values an event filter holds, a scalar counting as a list of one and
\* null as no value
ValuesOf(f) ==
    IF f.value.kind = "array" THEN f.value.val
    ELSE IF f.value.kind = "string" THEN <<f.value.val>>
    ELSE <<>>

\* v occurs in the list of values vs
Holds(vs, v) == \E j \in 1..Len(vs) : vs[j] = v

\* what C4 says becomes of entry f under togglePropertyFilter(k, v), as a
\* list of no entry (removed) or one entry
C4_Outcome(f, k, v) ==
    IF ~IsExactEventFilter(f, k) THEN <<f>>
    ELSE IF Holds(ValuesOf(f), v) /\ Len(ValuesOf(f)) > 1
         THEN <<[type |-> Event, key |-> k, operator |-> Exact,
                 value |-> ArrayValue(<<v>>)]>>
    ELSE IF Holds(ValuesOf(f), v) THEN <<>>
    ELSE <<[type |-> Event, key |-> k, operator |-> Exact,
            value |-> ArrayValue(ValuesOf(f) \o <<v>>)]>>

RECURSIVE C4_Outcomes(_, _, _)
C4_Outcomes(fs, k, v) ==
    IF Len(fs) = 0 THEN <<>>
    ELSE C4_Outcome(Head(fs), k, v) \o C4_Outcomes(Tail(fs), k, v)

\* C4: when the list holds an Exact event filter for a non-set-once key k,
\* togglePropertyFilter(k, v) turns its value into [v] if v is one of several
\* values, removes the filter if v is its only value, and appends v to its
\* values if v is not among them; every other entry stays as it is.
C4_EventToggle ==
    [][\A k \in Keys \ setOncePropertyNames, v \in Values :
         (/\ ToggleStep(k, v)
          /\ \E i \in 1..Len(webAnalyticsFilters) :
                 IsExactEventFilter(webAnalyticsFilters[i], k))
            => webAnalyticsFilters' = C4_Outcomes(webAnalyticsFilters, k, v)]_vars

\* toggling (k, v1) then (k, v2) on a fresh key has left one filter with
\* the two values
C4_Witness ==
    /\ lastAction.type = "togglePropertyFilter"
    /\ lastAction.key \notin setOncePropertyNames
    /\ \E i \in 1..Len(webAnalyticsFilters), v1 \in Values :
          /\ v1 # lastAction.value
          /\ webAnalyticsFilters[i] =
                [type |-> Event, key |-> lastAction.key, operator |-> Exact,
                 value |-> ArrayValue(<<v1, lastAction.value>>)]
          /\ EntriesFor(webAnalyticsFilters, lastAction.key) = {i}

(***************************************************************************)
(* C5 - set-once replace.                                                  *)
(***************************************************************************)
\* C5: when the list holds a HogQL filter encoding (k, v1) for a set-once
\* key k, togglePropertyFilter(k, v2) with v2 # v1 leaves at that position a
\* HogQL filter encoding (k, v2), and no entry encoding (k, v1) remains.
C5_SetOnceReplace ==
    [][\A k \in Keys \cap setOncePropertyNames, v1 \in Values, v2 \in Values :
         \A i \in 1..Len(webAnalyticsFilters) :
            (/\ ToggleStep(k, v2)
             /\ v1 # v2
             /\ EncodesSetOnce(webAnalyticsFilters[i], k, v1))
               => /\ Len(webAnalyticsFilters') = Len(webAnalyticsFilters)
                  /\ EncodesSetOnce(webAnalyticsFilters'[i], k, v2)
                  /\ \A j \in 1..Len(webAnalyticsFilters') :
                        ~EncodesSetOnce(webAnalyticsFilters'[j], k, v1)]_vars

(***************************************************************************)
(* C6 - set-once toggle-off.                                               *)
(***************************************************************************)
\* C6: in every state reached by togglePropertyFilter operations, if the
\* list holds a set-once filter for k encoding v, whether created by a first
\* toggle or by a replacement, togglePropertyFilter(k, v) leaves no filter
\* for k in the list.
C6_SetOnceToggleOff ==
    [][\A k \in Keys \cap setOncePropertyNames, v \in Values :
         (/\ ToggleStep(k, v)
          /\ \E i \in 1..Len(webAnalyticsFilters) :
                 EncodesSetOnce(webAnalyticsFilters[i], k, v))
            => EntriesFor(webAnalyticsFilters', k) = {}]_vars

(***************************************************************************)
(* C7 - the kind of a filter is determined by its key.                     *)
(***************************************************************************)
\* C7: in every state reached by togglePropertyFilter operations, every
\* filter for a set-once property is a HogQL filter and every filter for
\* another property is an event filter with operator Exact.
C7_KindByKey ==
    \A i \in 1..Len(webAnalyticsFilters) :
        LET f == webAnalyticsFilters[i] IN
        IF \E k \in setOncePropertyNames : FiltersProperty(f, k)
        THEN f.type = HogQL
        ELSE f.type = Event /\ f.operator = Exact

\* toggles have built a list holding a set-once filter and an event filter
C7_Witness ==
    /\ lastAction.type = "togglePropertyFilter"
    /\ \E i, j \in 1..Len(webAnalyticsFilters) :
          /\ webAnalyticsFilters[i].type = HogQL
          /\ \E k \in setOncePropertyNames : FiltersProperty(webAnalyticsFilters[i], k)
          /\ webAnalyticsFilters[j].type = Event
          /\ webAnalyticsFilters[j].key \notin setOncePropertyNames

(***************************************************************************)
(* C8 - the tiles are a fixed sequence in a fixed order.                   *)
(***************************************************************************)
\* the tiles derived from the current state of the store
currentTiles == tiles(webAnalyticsFilters, pathTab, deviceTab, sourceTab)

\* the ids of the tabs of a tabbed tile, in order
TabIds(tile) == [i \in 1..Len(tile.tabs) |-> tile.tabs[i].id]

\* t is the sequence overview stats, paths tabs, sources tabs, devices tabs,
\* unique-users trend, world map, in its first six places
InFixedOrder(t) ==
    /\ Len(t) >= 6
    /\ "query" \in DOMAIN t[1] /\ t[1].query.source.kind = "WebOverviewStatsQuery"
    /\ "tabs" \in DOMAIN t[2] /\ TabIds(t[2]) = PathTab
    /\ "tabs" \in DOMAIN t[3] /\ TabIds(t[3]) = SourceTab
    /\ "tabs" \in DOMAIN t[4] /\ TabIds(t[4]) = DeviceTab
    /\ "query" \in DOMAIN t[5] /\ t[5].title = "Unique users"
    /\ "query" \in DOMAIN t[6] /\ t[6].title = "World Map (Unique Users)"

\* C8 as stated: the derivation yields 7 tiles on every call, in the order
\* overview stats, paths tabs, sources tabs, devices tabs, unique-users
\* trend, world map.
C8_SevenTiles ==
    /\ Len(currentTiles) = 7
    /\ InFixedOrder(currentTiles)

\* C8 amended: the derivation yields 6 tiles on every call, in the order
\* overview stats, paths tabs, sources tabs, devices tabs, unique-users
\* trend, world map.
C8_SixTiles ==
    /\ Len(currentTiles) = 6
    /\ InFixedOrder(currentTiles)

\* tiles derived after the filters and every tab selection have changed
C8_Witness ==
    /\ Len(webAnalyticsFilters) > 0
    /\ pathTab = PathTab[2]
    /\ sourceTab = SourceTab[3]
    /\ deviceTab = DeviceTab[2]
    /\ Len(currentTiles) = 6

(***************************************************************************)
(* C9 - what every query of the tiles carries.                             *)
(***************************************************************************)
\* the queries of a list of tiles: the query of each query tile and the
\* query of every tab of each tabbed tile
RECURSIVE QueriesOf(_)
QueriesOf(t) ==
    IF Len(t) = 0 THEN <<>>
    ELSE (IF "query" \in DOMAIN Head(t)
          THEN <<Head(t).query>>
          ELSE [i \in 1..Len(Head(t).tabs) |-> Head(t).tabs[i].query])
         \o QueriesOf(Tail(t))

\* query q carries the exclude-test-accounts flag, set to true
ExcludesTestAccounts(q) ==
    /\ "filterTestAccounts" \in DOMAIN q.source
    /\ q.source.filterTestAccounts = TRUE

\* C9 as stated: every query of every tile, tabs included, carries the
\* current filter list as its properties and the exclude-test-accounts flag
\* set to true.
C9_AllQueriesFilteredAndFlagged ==
    LET qs == QueriesOf(currentTiles) IN
    \A i \in 1..Len(qs) :
        /\ qs[i].source.properties = webAnalyticsFilters
        /\ ExcludesTestAccounts(qs[i])

\* C9 amended: every query of every tile, tabs included, carries the
\* current filter list as its properties; the two trends queries carry the
\* exclude-test-accounts flag set to true, and the overview and the
\* breakdown table queries carry no such flag.
C9_AllQueriesFiltered ==
    LET qs == QueriesOf(currentTiles) IN
    /\ Len(qs) = 11
    /\ \A i \in 1..Len(qs) :
          /\ qs[i].source.properties = webAnalyticsFilters
          /\ IF qs[i].source.kind = "TrendsQuery"
             THEN ExcludesTestAccounts(qs[i])
             ELSE "filterTestAccounts" \notin DOMAIN qs[i].source

\* tiles derived from a list of two filters left by a toggle
C9_Witness ==
    /\ lastAction.type = "togglePropertyFilter"
    /\ Len(webAnalyticsFilters) = 2
    /\ currentTiles[6].query.source.properties = webAnalyticsFilters
    /\ currentTiles[2].tabs[2].query.source.properties = webAnalyticsFilters

(***************************************************************************)
(* C10 - frame conditions of the store actions.                            *)
(***************************************************************************)
\* C10: setSourceTab, setDeviceTab and setPathTab each set their own tab
\* selection and leave the filter list and the other two selections as they
\* are; setWebAnalyticsFilters and togglePropertyFilter leave the three tab
\* selections as they are.
C10_FrameConditions ==
    [][/\ lastAction'.type = "setSourceTab"
          => /\ sourceTab' = lastAction'.tab
             /\ UNCHANGED <<webAnalyticsFilters, deviceTab, pathTab>>
       /\ lastAction'.type = "setDeviceTab"
          => /\ deviceTab' = lastAction'.tab
             /\ UNCHANGED <<webAnalyticsFilters, sourceTab, pathTab>>
       /\ lastAction'.type = "setPathTab"
          => /\ pathTab' = lastAction'.tab
             /\ UNCHANGED <<webAnalyticsFilters, sourceTab, deviceTab>>
       /\ lastAction'.type \in {"setWebAnalyticsFilters", "togglePropertyFilter"}
          => UNCHANGED <<sourceTab, deviceTab, pathTab>>]_vars

\* setPathTab('INITIAL_PATH') has acted on a store holding filters and
\* non-default source and device tabs
C10_Witness ==
    /\ lastAction.type = "setPathTab"
    /\ pathTab = "INITIAL_PATH"
    /\ Len(webAnalyticsFilters) > 0
    /\ sourceTab = "UTM_SOURCE"
    /\ deviceTab = "OS"

(***************************************************************************)
(* C11 - the active tab of each tabbed tile tracks the store.              *)
(***************************************************************************)
\* C11: in every reachable state the paths, sources and devices tiles have
\* activeTabId equal to pathTab, sourceTab and deviceTab; the store starts
\* with PATH, REFERRING_DOMAIN, BROWSER and no filter; and once the action a
\* tabbed tile holds as setTabId has been dispatched with id, that tile's
\* activeTabId is id.
C11_ActiveTabTracksStore ==
    /\ currentTiles[2].activeTabId = pathTab
    /\ currentTiles[3].activeTabId = sourceTab
    /\ currentTiles[4].activeTabId = deviceTab
    /\ lastAction.type = "init"
          => /\ pathTab = "PATH"
             /\ sourceTab = "REFERRING_DOMAIN"
             /\ deviceTab = "BROWSER"
             /\ webAnalyticsFilters = <<>>
    /\ \A i \in 2..4 :
          lastAction.type = currentTiles[i].setTabId
             => currentTiles[i].activeTabId = lastAction.tab

\* the setTabId of the paths tile has been called with INITIAL_PATH after
\* the other two tabs were moved off their defaults
C11_Witness ==
    /\ lastAction.type = currentTiles[2].setTabId
    /\ lastAction.tab = "INITIAL_PATH"
    /\ currentTiles[2].activeTabId = "INITIAL_PATH"
    /\ currentTiles[3].activeTabId = "UTM_CAMPAIGN"
    /\ currentTiles[4].activeTabId = "DEVICE_TYPE"

(***************************************************************************)
(* C12 - a tab id outside the group's tabs degrades silently.              *)
(***************************************************************************)
\* the ids in a sequence of tab ids
IdsOf(group) == {group[i] : i \in 1..Len(group)}

\* slot i of the rendered grid r shows the query of the tab of tile i whose
\* id is tab when tab is one of the group's ids, and nothing otherwise
SlotFollowsTab(r, i, tab, group) ==
    IF tab \in IdsOf(group)
    THEN /\ r[i] # NullElement
         /\ \E j \in 1..Len(group) :
               /\ group[j] = tab
               /\ r[i].query = currentTiles[i].tabs[j].query
               /\ r[i].title = <<currentTiles[i].tabs[j].title>>
    ELSE r[i] = NullElement

\* C12: a tab setter called with an id that is not one of its group's ids
\* is accepted by the store; the slot of that group then renders nothing
\* while the query tiles and the groups with a valid id are rendered; and a
\* group whose id is valid, also after having been invalid, shows that
\* tab's content.
C12_InvalidTabRendersNothing ==
    LET r == WebAnalyticsDashboard(currentTiles) IN
    /\ Len(r) = 6
    /\ r[1] # NullElement /\ r[5] # NullElement /\ r[6] # NullElement
    /\ SlotFollowsTab(r, 2, pathTab, PathTab)
    /\ SlotFollowsTab(r, 3, sourceTab, SourceTab)
    /\ SlotFollowsTab(r, 4, deviceTab, DeviceTab)
    /\ lastAction.type = "setPathTab" => pathTab = lastAction.tab
    /\ lastAction.type = "setSourceTab" => sourceTab = lastAction.tab
    /\ lastAction.type = "setDeviceTab" => deviceTab = lastAction.tab

\* setSourceTab has been called with an id of no source tab: the sources
\* slot is empty and the five other slots are rendered
C12_Witness ==
    LET r == WebAnalyticsDashboard(currentTiles) IN
    /\ lastAction.type = "setSourceTab"
    /\ lastAction.tab \notin IdsOf(SourceTab)
    /\ sourceTab = lastAction.tab
    /\ r[3] = NullElement
    /\ \A i \in {1, 2, 4, 5, 6} : r[i] # NullElement

(***************************************************************************)
(* C13 - togglePropertyFilter preserves the order of the list.             *)
(***************************************************************************)
\* f is a filter of the kind that applies to key k: a HogQL filter for k
\* when k is a set-once property, an Exact event filter for k otherwise
Applicable(f, k) ==
    IF k \in setOncePropertyNames
    THEN f.type = HogQL /\ FiltersProperty(f, k)
    ELSE IsExactEventFilter(f, k)

\* where entry i of a list lands once the entries at positions R are dropped
PositionAfter(i, R) == i - Cardinality({r \in R : r < i})

\* C13: togglePropertyFilter(k, v) drops some of the entries of the kind
\* applicable to k and nothing else; every remaining entry keeps its place
\* among the remaining ones, unchanged if it is not of that kind and still a
\* filter for k if it is; and a new filter, if one is created, is a filter
\* for k placed after all of them.
C13_OrderPreserved ==
    [][\A k \in Keys, v \in Values :
         ToggleStep(k, v) =>
           LET old == webAnalyticsFilters
               new == webAnalyticsFilters'
               A == {i \in 1..Len(old) : Applicable(old[i], k)}
           IN  \E R \in SUBSET A :
                 LET m == Len(old) - Cardinality(R) IN
                 /\ Len(new) \in {m, m + 1}
                 /\ \A i \in (1..Len(old)) \ R :
                       IF i \in A
                       THEN FiltersProperty(new[PositionAfter(i, R)], k)
                       ELSE new[PositionAfter(i, R)] = old[i]
                 /\ Len(new) = m + 1
                       => /\ R = {}
                          /\ FiltersProperty(new[m + 1], k)]_vars

\* a toggle has rewritten the first of two entries in place
C13_Witness ==
    /\ lastAction.type = "togglePropertyFilter"
    /\ Len(webAnalyticsFilters) = 2
    /\ webAnalyticsFilters[1].type = Event
    /\ webAnalyticsFilters[1].key = lastAction.key
    /\ webAnalyticsFilters[1].value.kind = "array"
    /\ Len(webAnalyticsFilters[1].value.val) = 2
    /\ webAnalyticsFilters[1].value.val[2] = lastAction.value
    /\ ~FiltersProperty(webAnalyticsFilters[2], lastAction.key)

(***************************************************************************)
(* C14 - matching is done under the kind applicable to the key.            *)
(***************************************************************************)
\* f is the filter a toggle of (k, v) creates: of the kind applicable to k,
\* holding v alone
IsNewFilterFor(f, k, v) ==
    IF k \in setOncePropertyNames
    THEN EncodesSetOnce(f, k, v)
    ELSE IsExactEventFilter(f, k) /\ ValuesOf(f) = <<v>>

\* C14: in every state reached by setWebAnalyticsFilters and
\* togglePropertyFilter, a togglePropertyFilter(k, v) made while the list
\* holds no filter of the kind applicable to k appends exactly one new
\* filter for (k, v) and leaves the rest of the list as it is; an Exact event
\* filter on a set-once property is no match for that set-once key.
C14_NoApplicableKindAppends ==
    [][\A k \in Keys, v \in Values :
         (/\ ToggleStep(k, v)
          /\ \A i \in 1..Len(webAnalyticsFilters) :
                 ~Applicable(webAnalyticsFilters[i], k))
            => /\ Len(webAnalyticsFilters') = Len(webAnalyticsFilters) + 1
               /\ SubSeq(webAnalyticsFilters', 1, Len(webAnalyticsFilters))
                     = webAnalyticsFilters
               /\ IsNewFilterFor(webAnalyticsFilters'[Len(webAnalyticsFilters')], k, v)]_vars

====
